---- MODULE Spec2Model ----
(***************************************************************************)
(* Model of baselines/clinc_intent/ensemble.py: the evaluation script of   *)
(* an ensemble on CLINC intent detection.  A run of main() is a sequential *)
(* program; its position is pc.  The output directory (the logit cache)    *)
(* outlives a run, so the model lets several runs follow one another over  *)
(* the same directory, and lets a run be interrupted at any point.         *)
(***************************************************************************)
EXTENDS Integers, Sequences, FiniteSets, TLC

\* ----------------------------------------------------------------- bounds
MaxRuns == 2
MaxMembers == 2
MaxBatch == 2
MaxExamples == 4
MaxCores == 2
MaxEnsemble == 2
MaxClasses == 2
MaxWeight == 2

\* ------------------------------------------------------- program constants
\* dataset_builders = {'clean': ..., 'ood': ...}; dicts iterate in insertion order
Datasets == <<"clean", "ood">>

DatasetNames == {Datasets[i] : i \in 1..Len(Datasets)}

\* values of --model_family tried; the code lower-cases before comparing
ModelFamilies == {"TextCNN", "bert", "lstm"}

\* str.lower() on the families above
Lower(s) ==
  CASE s = "TextCNN" -> "textcnn"
    [] s = "BERT" -> "bert"
    [] OTHER -> s

\* the empty file GFile creates on its first write, before np.save's header
NoHeader == 0 - 1

Min(a, b) == IF a < b THEN a ELSE b

\* Python's seq[a:b] for 0 <= a (slices clamp to the length, they never raise)
Slice(seq, a, b) == SubSeq(seq, a + 1, Min(b, Len(seq)))

\* a file of the output directory: absent, or a header (the row count np.save
\* stores in the .npy shape) followed by the rows written so far
AbsentFile == [exists |-> FALSE, hdr |-> NoHeader, rows |-> <<>>]

\* np.load succeeds only on a file whose data matches its header
Complete(f) == f.exists /\ f.hdr # NoHeader /\ Len(f.rows) = f.hdr

\* the metric accumulators of main, in dict insertion order
CleanMetrics ==
  <<"test/negative_log_likelihood", "test/gibbs_cross_entropy",
    "test/accuracy", "test/ece">>

OtherMetrics(d) == <<"test/nll_" \o d, "test/accuracy_" \o d, "test/ece_" \o d>>

RECURSIVE MetricsFrom(_)
MetricsFrom(i) ==
  IF i > Len(Datasets) THEN <<>>
  ELSE (IF Datasets[i] # "clean" THEN OtherMetrics(Datasets[i]) ELSE <<>>)
       \o MetricsFrom(i + 1)

MetricOrder == CleanMetrics \o MetricsFrom(1)

MetricNames == {MetricOrder[i] : i \in 1..Len(MetricOrder)}

\* a slip: Gibbs cross-entropy is accumulated for every split
GibbsEverywhere(name) ==
  IF name = "clean"
    THEN {CleanMetrics[i] : i \in 1..Len(CleanMetrics)}
    ELSE {OtherMetrics(name)[i] : i \in 1..3} \cup {"test/gibbs_cross_entropy"}

\* the accumulators a batch of dataset `name` updates
UpdatedBy(name) ==
  IF name = "clean"
    THEN {CleanMetrics[i] : i \in 1..Len(CleanMetrics)}
    ELSE {OtherMetrics(name)[i] : i \in 1..3}

FreshMetric == [state |-> "accumulating", updates |-> 0, results |-> 0]

NoMetric == [state |-> "uninitialized", updates |-> 0, results |-> 0]

VARIABLES
  files,            \* output directory: file of each (dataset, member)
  numTestExamples,  \* dataset_builder.info['num_test_examples'] per dataset
  perCoreBatch,     \* FLAGS.per_core_batch_size
  runs,             \* runs of main started so far
  pc,               \* position of the current run in main
  use_gpu, num_cores, model_family,   \* FLAGS
  batch_size, steps_per_eval, ensemble_size,
  weights,          \* the checkpoint whose weights the model holds
  m, n, step,       \* loop indices
  logits,           \* rows collected for the current (member, dataset)
  percent,          \* <<numerator, denominator>> of the last logged percent
  metrics,
  logits_dataset,   \* the loaded arrays of the dataset being evaluated
  paired,           \* the last (labels, logits slice) pair that was evaluated
  r,                \* position of the result() comprehension
  it,               \* position of test_iterator in its dataset
  hist,             \* what the run has done so far (observation only)
  fn,               \* which of the two reductions have been applied
  labels_in,        \* labels argument of the reductions (one example)
  logits_in,        \* logits argument [M, C], each entry held as exp(logit)
  ens_out,          \* result of ensemble_negative_log_likelihood
  gibbs_out         \* result of gibbs_cross_entropy

mainvars ==
  <<files, numTestExamples, perCoreBatch, runs, pc, use_gpu, num_cores,
    model_family, batch_size, steps_per_eval, ensemble_size, weights, m, n,
    step, logits, percent, metrics, logits_dataset, paired, r, it, hist>>

num == <<fn, labels_in, logits_in, ens_out, gibbs_out>>

vars == <<mainvars, num>>

Pairs == DatasetNames \X (0..(MaxMembers - 1))

\* '{dataset}_{member}.npy' under FLAGS.output_dir
Filename(name, member) == <<name, member>>

NoHist ==
  [error |-> "none", madeDirs |-> FALSE, built |-> FALSE, restores |-> 0,
   forwards |-> 0, cacheWrites |-> 0, reads |-> 0, visited |-> 0,
   evals |-> 0, hit |-> FALSE, pairForwards |-> 0, pairWrites |-> 0,
   fullCache |-> FALSE]

\* the volatile state of a process that has not started main
Fresh ==
  /\ batch_size = 0
  /\ steps_per_eval = [d \in DatasetNames |-> 0]
  /\ ensemble_size = 0
  /\ weights = NoHeader
  /\ m = 0 /\ n = 0 /\ step = 0 /\ r = 0 /\ it = 0
  /\ logits = <<>>
  /\ percent = <<0, 1>>
  /\ metrics = [k \in MetricNames |-> NoMetric]
  /\ logits_dataset = <<>>
  /\ paired = [labels |-> <<>>, logits |-> <<>>]
  /\ hist = NoHist

\* the reductions have not been called
NumIdle ==
  /\ fn = {}
  /\ labels_in = 1
  /\ logits_in = <<>>
  /\ ens_out = <<0, 1>>
  /\ gibbs_out = [expNegSum |-> <<0, 1>>, count |-> 1]

Init ==
  /\ NumIdle
  /\ files = [p \in Pairs |-> AbsentFile]
  /\ perCoreBatch \in 1..MaxBatch
  /\ numTestExamples \in [DatasetNames -> (MaxExamples - 1)..MaxExamples]
  /\ runs = 0
  /\ pc = "idle"
  /\ use_gpu = TRUE /\ num_cores = 1 /\ model_family = "TextCNN"
  /\ Fresh

\* a new process starts with the volatile state of Fresh
Reset ==
  /\ batch_size' = 0
  /\ steps_per_eval' = [d \in DatasetNames |-> 0]
  /\ ensemble_size' = 0
  /\ weights' = NoHeader
  /\ m' = 0 /\ n' = 0 /\ step' = 0 /\ r' = 0 /\ it' = 0
  /\ logits' = <<>>
  /\ percent' = <<0, 1>>
  /\ metrics' = [k \in MetricNames |-> NoMetric]
  /\ logits_dataset' = <<>>
  /\ paired' = [labels |-> <<>>, logits |-> <<>>]
  /\ hist' = NoHist

Terminal == {"idle", "done", "raised", "failed", "killed"}

Env == <<files, numTestExamples, perCoreBatch, runs>>

Flags == <<use_gpu, num_cores, model_family>>

Setup == <<batch_size, steps_per_eval, ensemble_size>>

\* ------------------------------------------------------------ helpers of main
num_datasets == Len(Datasets)

\* the dataset the loop index nn stands at (enumerate(test_datasets.items()))
Name(nn) == Datasets[nn + 1]

\* the examples of the s-th batch a test iterator yields (full batches, in order)
Batch(s) == [i \in 1..batch_size |-> s * batch_size + (i - 1)]

\* model(features, training=False): one row of logits per example, a function of
\* the weights the model holds and of the example
ModelOutput(w, name, batch) == [i \in 1..Len(batch) |-> <<w, name, batch[i]>>]

\* tf.concat(logits, axis=0)
RECURSIVE Concat(_)
Concat(list) == IF list = <<>> THEN <<>> ELSE Head(list) \o Concat(Tail(list))

\* observation: the file of the pair is in the output directory now
Present(name, member) == files[<<name, member>>].exists

\* a slip: the existence test looks at member 0's file
WrongMemberExists(fs, name, member) == fs[<<name, 0>>].exists

\* a slip: the existence test never finds the file
NeverCached(fs, name, member) == FALSE

\* tf.io.gfile.exists(filename)
CacheExists(fs, name, member) == fs[Filename(name, member)].exists

\* a slip: the member loop stops one member early
AllButLastMember(mm, size) == mm + 1 < size

\* the member loop, for m, ensemble_filename in enumerate(ensemble_filenames)
MembersLeft(mm, size) == mm < size

\* a slip: the dataset index is taken 0-based
ZeroBasedPercentNum(mm, nn) == mm * num_datasets + nn

\* numerator of the logged percent
PercentNum(mm, nn) == mm * num_datasets + (nn + 1)

\* a slip: the slice starts at step, not at step * batch_size
UnscaledSliceOf(arrays, s) ==
  [i \in 1..Len(arrays) |-> Slice(arrays[i], s, s + batch_size)]

\* logits_dataset[:, (step * batch_size):((step + 1) * batch_size)]
SliceOf(arrays, s) ==
  [i \in 1..Len(arrays) |-> Slice(arrays[i], s * batch_size, (s + 1) * batch_size)]

\* update_state on one accumulator
Updated(acc) == [acc EXCEPT !.updates = @ + 1]

\* result() on one accumulator
Finalized(acc) == [acc EXCEPT !.state = "finalized", !.results = @ + 1]

\* a slip: the comprehension leaves the last accumulator out
AllButLastResult(rr) == rr + 1 < Len(MetricOrder)

\* the dict comprehension over metrics.items()
ResultsLeft(rr) == rr < Len(MetricOrder)

\* a slip: the flags are validated after the output directory is made
ValidateLate(p) ==
  CASE p = "start" -> "makedirs"
    [] p = "makedirs" -> "check_gpu"
    [] p = "check_gpu" -> "check_cores"
    [] p = "check_cores" -> "build"
    [] p = "build" -> "model"
    [] p = "model" -> "glob"
    [] p = "glob" -> "restore"

\* the straight-line part of main: the statement that follows each statement
Following(p) ==
  CASE p = "start" -> "check_gpu"
    [] p = "check_gpu" -> "check_cores"
    [] p = "check_cores" -> "makedirs"
    [] p = "makedirs" -> "build"
    [] p = "build" -> "model"
    [] p = "model" -> "glob"
    [] p = "glob" -> "restore"

Raise(what) ==
  /\ pc' = "raised"
  /\ hist' = [hist EXCEPT !.error = what]

Fail(what) ==
  /\ pc' = "failed"
  /\ hist' = [hist EXCEPT !.error = what]

\* ------------------------------------------------------------------ actions
\* a new process runs main over the same output directory
StartRun ==
  /\ pc \in Terminal
  /\ runs < MaxRuns
  /\ runs' = runs + 1
  /\ use_gpu' \in BOOLEAN
  /\ num_cores' \in 1..MaxCores
  /\ model_family' \in ModelFamilies
  /\ Reset
  /\ pc' = Following("start")
  /\ UNCHANGED <<files, numTestExamples, perCoreBatch>>
  /\ UNCHANGED num

CheckGpu ==
  /\ pc = "check_gpu"
  /\ IF ~use_gpu THEN Raise("gpu") ELSE pc' = Following(pc) /\ UNCHANGED hist
  /\ UNCHANGED <<Env, Flags, Setup, weights, m, n, step, logits, percent,
                 metrics, logits_dataset, paired, r, it>>
  /\ UNCHANGED num

CheckCores ==
  /\ pc = "check_cores"
  /\ IF num_cores > 1 THEN Raise("cores") ELSE pc' = Following(pc) /\ UNCHANGED hist
  /\ UNCHANGED <<Env, Flags, Setup, weights, m, n, step, logits, percent,
                 metrics, logits_dataset, paired, r, it>>
  /\ UNCHANGED num

MakeDirs ==
  /\ pc = "makedirs"
  /\ hist' = [hist EXCEPT !.madeDirs = TRUE]
  /\ pc' = Following(pc)
  /\ UNCHANGED <<Env, Flags, Setup, weights, m, n, step, logits, percent,
                 metrics, logits_dataset, paired, r, it>>
  /\ UNCHANGED num

BuildDatasets ==
  /\ pc = "build"
  /\ batch_size' = perCoreBatch * num_cores
  /\ steps_per_eval' = [d \in DatasetNames |-> numTestExamples[d] \div batch_size']
  /\ hist' = [hist EXCEPT !.built = TRUE]
  /\ pc' = Following(pc)
  /\ UNCHANGED <<Env, Flags, ensemble_size, weights, m, n, step, logits,
                 percent, metrics, logits_dataset, paired, r, it>>
  /\ UNCHANGED num

CreateModel ==
  /\ pc = "model"
  /\ IF Lower(model_family) \in {"textcnn", "bert"}
       THEN pc' = Following(pc) /\ UNCHANGED hist
       ELSE Raise("family")
  /\ UNCHANGED <<Env, Flags, Setup, weights, m, n, step, logits, percent,
                 metrics, logits_dataset, paired, r, it>>
  /\ UNCHANGED num

FindCheckpoints ==
  /\ pc = "glob"
  /\ \E size \in 0..MaxMembers :
       /\ ensemble_size' = size
       /\ hist' = [hist EXCEPT !.fullCache =
                     \A d \in DatasetNames : \A k \in 0..(size - 1) :
                       Present(d, k)]
  /\ m' = 0
  /\ pc' = Following(pc)
  /\ UNCHANGED <<Env, Flags, batch_size, steps_per_eval, weights, n, step,
                 logits, percent, metrics, logits_dataset, paired, r, it>>
  /\ UNCHANGED num

Restore ==
  /\ pc = "restore"
  /\ IF MembersLeft(m, ensemble_size)
       THEN /\ weights' = m
            /\ n' = 0
            /\ hist' = [hist EXCEPT !.restores = @ + 1]
            /\ pc' = "exists"
       ELSE /\ pc' = "metrics"
            /\ UNCHANGED <<weights, n, hist>>
  /\ UNCHANGED <<Env, Flags, Setup, m, step, logits, percent, metrics,
                 logits_dataset, paired, r, it>>
  /\ UNCHANGED num

CheckCache ==
  /\ pc = "exists"
  /\ IF n < num_datasets
       THEN IF CacheExists(files, Name(n), m)
              THEN /\ pc' = "log"
                   /\ hist' = [hist EXCEPT !.hit = Present(Name(n), m),
                                           !.pairForwards = 0,
                                           !.pairWrites = 0]
                   /\ UNCHANGED <<m, step, it, logits>>
              ELSE /\ pc' = "forward"
                   /\ logits' = <<>>
                   /\ step' = 0
                   /\ it' = 0
                   /\ hist' = [hist EXCEPT !.hit = Present(Name(n), m),
                                           !.pairForwards = 0,
                                           !.pairWrites = 0]
                   /\ UNCHANGED m
       ELSE /\ m' = m + 1
            /\ pc' = "restore"
            /\ UNCHANGED <<step, it, logits, hist>>
  /\ UNCHANGED <<Env, Flags, Setup, weights, n, percent, metrics,
                 logits_dataset, paired, r>>
  /\ UNCHANGED num

Forward ==
  /\ pc = "forward"
  /\ IF step < steps_per_eval[Name(n)]
       THEN /\ logits' = Append(logits, ModelOutput(weights, Name(n), Batch(it)))
            /\ it' = it + 1
            /\ step' = step + 1
            /\ hist' = [hist EXCEPT !.forwards = @ + 1, !.pairForwards = @ + 1]
            /\ pc' = "forward"
       ELSE /\ logits' = Concat(logits)
            /\ pc' = "write_open"
            /\ UNCHANGED <<it, step, hist>>
  /\ UNCHANGED <<Env, Flags, Setup, weights, m, n, percent, metrics,
                 logits_dataset, paired, r>>
  /\ UNCHANGED num

\* GFile(filename, 'w') creates or truncates the file on its first write
WriteOpen ==
  /\ pc = "write_open"
  /\ files' = [files EXCEPT ![Filename(Name(n), m)] =
                 [exists |-> TRUE, hdr |-> NoHeader, rows |-> <<>>]]
  /\ hist' = [hist EXCEPT !.cacheWrites = @ + 1, !.pairWrites = @ + 1]
  /\ pc' = "write_data"
  /\ UNCHANGED <<numTestExamples, perCoreBatch, runs, Flags, Setup, weights, m,
                 n, step, logits, percent, metrics, logits_dataset, paired, r, it>>
  /\ UNCHANGED num

\* np.save writes the header and the data, the with block closes the file
WriteData ==
  /\ pc = "write_data"
  /\ files' = [files EXCEPT ![Filename(Name(n), m)] =
                 [exists |-> TRUE, hdr |-> Len(logits), rows |-> logits]]
  /\ pc' = "log"
  /\ UNCHANGED <<numTestExamples, perCoreBatch, runs, Flags, Setup, weights, m,
                 n, step, logits, percent, metrics, logits_dataset, paired, r,
                 it, hist>>
  /\ UNCHANGED num

LogPercent ==
  /\ pc = "log"
  /\ percent' = <<PercentNum(m, n), ensemble_size * num_datasets>>
  /\ hist' = [hist EXCEPT !.visited = @ + 1]
  /\ n' = n + 1
  /\ pc' = "exists"
  /\ UNCHANGED <<Env, Flags, Setup, weights, m, step, logits, metrics,
                 logits_dataset, paired, r, it>>
  /\ UNCHANGED num

CreateMetrics ==
  /\ pc = "metrics"
  /\ metrics' = [k \in MetricNames |-> FreshMetric]
  /\ n' = 0
  /\ m' = 0
  /\ logits_dataset' = <<>>
  /\ pc' = "load"
  /\ UNCHANGED <<Env, Flags, Setup, weights, step, logits, percent, paired, r,
                 it, hist>>
  /\ UNCHANGED num

\* np.load of one member's file of the dataset being evaluated
Load ==
  /\ pc = "load"
  /\ IF n < num_datasets
       THEN IF m < ensemble_size
              THEN LET f == files[Filename(Name(n), m)] IN
                   IF ~f.exists
                     THEN /\ Fail("file_not_found")
                          /\ UNCHANGED <<logits_dataset, m, step, it>>
                   ELSE IF ~Complete(f)
                     THEN /\ pc' = "failed"
                          /\ hist' = [hist EXCEPT !.error = "bad_npy",
                                                  !.reads = @ + 1]
                          /\ UNCHANGED <<logits_dataset, m, step, it>>
                   ELSE /\ logits_dataset' = Append(logits_dataset, f.rows)
                        /\ m' = m + 1
                        /\ hist' = [hist EXCEPT !.reads = @ + 1]
                        /\ pc' = "load"
                        /\ UNCHANGED <<step, it>>
              ELSE /\ step' = 0
                   /\ it' = 0
                   /\ pc' = "eval"
                   /\ UNCHANGED <<logits_dataset, m, hist>>
       ELSE /\ pc' = "result"
            /\ UNCHANGED <<logits_dataset, m, step, it, hist>>
  /\ UNCHANGED <<Env, Flags, Setup, weights, n, logits, percent, metrics,
                 paired, r>>
  /\ UNCHANGED num

\* one batch of the evaluation loop
Eval ==
  /\ pc = "eval"
  /\ IF step < steps_per_eval[Name(n)]
       THEN LET labels == Batch(it)
                slice == SliceOf(logits_dataset, step) IN
            IF ensemble_size = 0
              THEN /\ Fail("index")
                   /\ UNCHANGED <<paired, metrics, step, it>>
            ELSE IF \E i \in 1..Len(slice) : Len(slice[i]) # Len(labels)
              THEN /\ Fail("shape")
                   /\ UNCHANGED <<paired, metrics, step, it>>
            ELSE /\ paired' = [labels |-> labels, logits |-> slice]
                 /\ metrics' = [k \in MetricNames |->
                                  IF k \in UpdatedBy(Name(n))
                                    THEN Updated(metrics[k]) ELSE metrics[k]]
                 /\ it' = it + 1
                 /\ step' = step + 1
                 /\ hist' = [hist EXCEPT !.evals = @ + 1]
                 /\ pc' = "eval"
       ELSE /\ pc' = "evallog"
            /\ UNCHANGED <<paired, metrics, step, it, hist>>
  /\ UNCHANGED <<Env, Flags, Setup, weights, m, n, logits, percent,
                 logits_dataset, r>>
  /\ UNCHANGED num

EvalLog ==
  /\ pc = "evallog"
  /\ n' = n + 1
  /\ m' = 0
  /\ logits_dataset' = <<>>
  /\ pc' = "load"
  /\ UNCHANGED <<Env, Flags, Setup, weights, step, logits, percent, metrics,
                 paired, r, it, hist>>
  /\ UNCHANGED num

\* total_results = {name: metric.result() for name, metric in metrics.items()}
Result ==
  /\ pc = "result"
  /\ IF ResultsLeft(r)
       THEN /\ metrics' = [metrics EXCEPT ![MetricOrder[r + 1]] = Finalized(@)]
            /\ r' = r + 1
            /\ pc' = "result"
       ELSE /\ pc' = "done"
            /\ UNCHANGED <<metrics, r>>
  /\ UNCHANGED <<Env, Flags, Setup, weights, m, n, step, logits, percent,
                 logits_dataset, paired, it, hist>>
  /\ UNCHANGED num

\* the process is killed: its memory is gone, and a file being written keeps
\* whatever had reached it (nothing, or the header and some of the rows)
Interrupt ==
  /\ pc \notin Terminal
  /\ pc' = "killed"
  /\ IF pc = "write_data"
       THEN \E k \in 0..Len(logits) :
              files' = [files EXCEPT ![Filename(Name(n), m)] =
                          IF k = 0 THEN @
                          ELSE [exists |-> TRUE, hdr |-> Len(logits),
                                rows |-> SubSeq(logits, 1, k - 1)]]
       ELSE UNCHANGED files
  /\ Reset
  /\ UNCHANGED <<numTestExamples, perCoreBatch, runs, Flags>>
  /\ UNCHANGED num

\* ------------------------------------------------- the two reductions
\* Values are exact rationals <<numerator, denominator>>.  A logit is held as
\* exp(logit), a positive integer, and a log-domain quantity x is held as
\* exp(-x): a negative log-likelihood by the likelihood it is the -log of.
RAdd(a, b) == <<a[1] * b[2] + b[1] * a[2], a[2] * b[2]>>

RMul(a, b) == <<a[1] * b[1], a[2] * b[2]>>

RLess(a, b) == a[1] * b[2] < b[1] * a[2]

RECURSIVE RPow(_, _)
RPow(a, k) == IF k = 0 THEN <<1, 1>> ELSE RMul(a, RPow(a, k - 1))

RECURSIVE SumSeq(_)
SumSeq(q) == IF q = <<>> THEN 0 ELSE Head(q) + SumSeq(Tail(q))

\* tf.nn.sparse_softmax_cross_entropy_with_logits(label, row), as the
\* likelihood softmax(row)[label]
SparseSoftmaxLik(label, row) == <<row[label], SumSeq(row)>>

\* the per-member nll of both reductions (labels broadcast over the members)
MemberLiks(labels, lg) == [i \in 1..Len(lg) |-> SparseSoftmaxLik(labels, lg[i])]

\* tf.reduce_logsumexp(-nll, axis=0), as exp of it: the sum of the likelihoods
RECURSIVE ReduceLogSumExp(_)
ReduceLogSumExp(liks) ==
  IF liks = <<>> THEN <<0, 1>> ELSE RAdd(Head(liks), ReduceLogSumExp(Tail(liks)))

RECURSIVE ReduceMax(_)
ReduceMax(liks) ==
  IF Len(liks) = 1 THEN Head(liks)
  ELSE LET rest == ReduceMax(Tail(liks)) IN
       IF RLess(Head(liks), rest) THEN rest ELSE Head(liks)

\* exp(-sum of the nll): the product of the likelihoods
RECURSIVE ReduceSum(_)
ReduceSum(liks) ==
  IF liks = <<>> THEN <<1, 1>> ELSE RMul(Head(liks), ReduceSum(Tail(liks)))

\* a slip: the maximum over the members in place of the log-sum-exp
MaxEnsembleNLL(labels, lg) ==
  LET best == ReduceMax(MemberLiks(labels, lg)) IN <<best[1], best[2] * Len(lg)>>

\* -logsumexp(-nll) + log(ensemble_size), as exp(-result): sum of the
\* likelihoods over ensemble_size
ensemble_negative_log_likelihood(labels, lg) ==
  LET total == ReduceLogSumExp(MemberLiks(labels, lg)) IN
  <<total[1], total[2] * Len(lg)>>

\* tf.reduce_mean(nll, axis=0): the sum of the nll (as exp(-sum)) and the
\* count it is divided by
gibbs_cross_entropy(labels, lg) ==
  [expNegSum |-> ReduceSum(MemberLiks(labels, lg)), count |-> Len(lg)]

RECURSIVE IntPow(_, _)
IntPow(a, k) == IF k = 0 THEN 1 ELSE a * IntPow(a, k - 1)

\* e <= g for e = -log(E) and g = -log(P) / count:  E^count >= P.  When E and P
\* stand over the common denominator D (E = e1 / (count * D), P = p1 / D) the
\* powers of D cancel, which keeps the products small.
NllLeq(e, g) ==
  LET k == g.count
      P == g.expNegSum IN
  IF e[2] = k * P[2]
    THEN IntPow(e[1], k) >= P[1] * IntPow(k, k) * IntPow(P[2], k - 1)
    ELSE ~RLess(RPow(e, k), P)

Classes == 1..MaxClasses

InitNum ==
  /\ fn = {}
  /\ labels_in \in Classes
  /\ \E size \in 1..MaxEnsemble :
       logits_in \in [1..size -> [Classes -> 1..MaxWeight]]
  /\ ens_out = <<0, 1>>
  /\ gibbs_out = [expNegSum |-> <<0, 1>>, count |-> 1]
  /\ files = [p \in Pairs |-> AbsentFile]
  /\ perCoreBatch = 1
  /\ numTestExamples = [d \in DatasetNames |-> MaxExamples]
  /\ runs = 0
  /\ pc = "idle"
  /\ use_gpu = TRUE /\ num_cores = 1 /\ model_family = "TextCNN"
  /\ Fresh

CallEnsembleNLL ==
  /\ "ens" \notin fn
  /\ ens_out' = ensemble_negative_log_likelihood(labels_in, logits_in)
  /\ fn' = fn \cup {"ens"}
  /\ UNCHANGED <<labels_in, logits_in, gibbs_out>>
  /\ UNCHANGED mainvars

CallGibbs ==
  /\ "gibbs" \notin fn
  /\ gibbs_out' = gibbs_cross_entropy(labels_in, logits_in)
  /\ fn' = fn \cup {"gibbs"}
  /\ UNCHANGED <<labels_in, logits_in, ens_out>>
  /\ UNCHANGED mainvars

NextNum ==
  \/ CallEnsembleNLL
  \/ CallGibbs

SpecNum == InitNum /\ [][NextNum]_vars

Next ==
  \/ StartRun
  \/ CheckGpu
  \/ CheckCores
  \/ MakeDirs
  \/ BuildDatasets
  \/ CreateModel
  \/ FindCheckpoints
  \/ Restore
  \/ CheckCache
  \/ Forward
  \/ WriteOpen
  \/ WriteData
  \/ LogPercent
  \/ CreateMetrics
  \/ Load
  \/ Eval
  \/ EvalLog
  \/ Result
  \/ Interrupt

Spec == Init /\ [][Next]_vars

\* ------------------------------------------------------------- properties
SameRun == runs' = runs /\ pc' # "killed"

\* C1: in the inference loop the forward pass runs exactly when the pair's
\* cache file is absent at the visit: steps_per_eval forward passes and then one
\* write on a miss, none of either on a hit; a run that finds every file of its
\* pairs present makes no forward pass.
C1_SkipIfExists ==
  /\ pc = "forward" => ~hist.hit
  /\ pc \in {"write_open", "write_data"} =>
       ~hist.hit /\ hist.pairForwards = steps_per_eval[Name(n)]
  /\ pc = "log" =>
       IF hist.hit
         THEN hist.pairForwards = 0 /\ hist.pairWrites = 0
         ELSE hist.pairForwards = steps_per_eval[Name(n)] /\ hist.pairWrites = 1
  /\ hist.fullCache => hist.forwards = 0 /\ hist.cacheWrites = 0

C1_Witness ==
  /\ pc = "done"
  /\ runs >= 2
  /\ ensemble_size >= 2
  /\ hist.fullCache
  /\ hist.visited = ensemble_size * num_datasets
  /\ hist.forwards = 0

\* C2: a cache file that exists is never written again, in this run or a later
\* one: a write only starts on an absent file, and an existing file changes only
\* while that one write is under way.
C2_WrittenOnce ==
  /\ [](pc = "write_open" => ~Present(Name(n), m))
  /\ [][\A p \in Pairs :
          files[p].exists =>
            \/ files'[p] = files[p]
            \/ pc = "write_data" /\ p = <<Name(n), m>>]_vars

C2_Witness ==
  /\ runs >= 2
  /\ pc = "log"
  /\ hist.hit
  /\ Complete(files[<<Name(n), m>>])
  /\ files[<<Name(n), m>>].rows # <<>>

\* C3: a write is all-or-nothing: outside the write itself a file of the
\* output directory is absent or complete, and a cache hit is on a complete file.
C3_AllOrNothing ==
  /\ pc # "write_data" => \A p \in Pairs : files[p].exists => Complete(files[p])
  /\ (pc = "log" /\ hist.hit) => Complete(files[<<Name(n), m>>])

\* C4: the phases are sequential: a cache read or a metric update happens only
\* after the inference loop has visited every (member, dataset) pair; after the
\* first read no restore, forward pass or cache write happens; and every file
\* the aggregation reads exists when it is read.
C4_PhasesSequential ==
  /\ []((hist.reads > 0 \/ \E k \in MetricNames : metrics[k].updates > 0) =>
          hist.visited = ensemble_size * num_datasets)
  /\ [](hist.error # "file_not_found")
  /\ [][(hist.reads > 0 /\ SameRun) =>
          /\ hist'.restores = hist.restores
          /\ hist'.forwards = hist.forwards
          /\ hist'.cacheWrites = hist.cacheWrites
          /\ files' = files]_vars

C4_Witness ==
  /\ pc = "done"
  /\ ensemble_size >= 2
  /\ hist.forwards > 0
  /\ hist.reads = ensemble_size * num_datasets

NoSideEffects ==
  /\ ~hist.madeDirs
  /\ ~hist.built
  /\ hist.restores = 0
  /\ hist.forwards = 0
  /\ hist.cacheWrites = 0

\* C5 as stated: when any configuration error is raised nothing has been done:
\* no output directory made, no dataset built, no checkpoint restored, no
\* forward pass, no cache write.
C5_NoWorkBeforeConfigError == pc = "raised" => NoSideEffects

\* C5 amended: the use_gpu and num_cores errors are raised before any side
\* effect; the model_family error is raised after the output directory is made
\* and the datasets are built, and before any checkpoint restore, forward pass
\* or cache write.
C5_ConfigErrors ==
  pc = "raised" =>
    /\ hist.error \in {"gpu", "cores", "family"}
    /\ hist.error \in {"gpu", "cores"} => NoSideEffects
    /\ hist.error = "family" =>
         /\ hist.madeDirs /\ hist.built
         /\ hist.restores = 0 /\ hist.forwards = 0 /\ hist.cacheWrites = 0

C5_Witness == pc = "raised" /\ hist.error = "family" /\ hist.madeDirs /\ hist.built

Rank(state) ==
  CASE state = "uninitialized" -> 0
    [] state = "accumulating" -> 1
    [] state = "finalized" -> 2

\* C6: an accumulator goes uninitialized -> accumulating -> finalized and never
\* back; every update_state precedes the first result(); result() is called
\* exactly once per accumulator.
C6_AccumulatorLifecycle ==
  /\ [](\A k \in MetricNames :
          /\ metrics[k].state \in {"uninitialized", "accumulating", "finalized"}
          /\ metrics[k].state = "uninitialized" => metrics[k].updates = 0
          /\ metrics[k].state = "finalized" <=> metrics[k].results = 1
          /\ metrics[k].results <= 1)
  /\ [](pc = "done" => \A k \in MetricNames : metrics[k].results = 1)
  /\ [][SameRun =>
          \A k \in MetricNames :
            /\ Rank(metrics'[k].state) >= Rank(metrics[k].state)
            /\ (\E j \in MetricNames : metrics[j].results > 0) =>
                 metrics'[k].updates = metrics[k].updates]_vars

C6_Witness ==
  /\ pc = "done"
  /\ \A k \in MetricNames :
       /\ metrics[k].state = "finalized"
       /\ metrics[k].updates >= 1
       /\ metrics[k].results = 1

C7_Expected(d) ==
  IF d = "clean"
    THEN {"test/negative_log_likelihood", "test/gibbs_cross_entropy",
          "test/accuracy", "test/ece"}
    ELSE IF d = "ood"
      THEN {"test/nll_ood", "test/accuracy_ood", "test/ece_ood"}
      ELSE {}

\* C7: a batch of the clean split updates exactly the four clean accumulators,
\* a batch of another split D exactly test/nll_D, test/accuracy_D, test/ece_D
\* (never test/gibbs_cross_entropy); at the end each accumulator has had
\* steps_per_eval[its split] updates.
C7_PerSplitMetrics ==
  /\ [](DOMAIN metrics = C7_Expected("clean") \cup C7_Expected("ood"))
  /\ [][hist'.evals = hist.evals + 1 =>
          \A k \in MetricNames :
            metrics'[k].updates =
              metrics[k].updates + (IF k \in C7_Expected(Name(n)) THEN 1 ELSE 0)]_vars
  /\ [](pc = "done" =>
          \A d \in DatasetNames : \A k \in C7_Expected(d) :
            metrics[k].updates = steps_per_eval[d])

C7_Witness ==
  /\ pc = "done"
  /\ ensemble_size >= 2
  /\ steps_per_eval["clean"] # steps_per_eval["ood"]
  /\ metrics["test/gibbs_cross_entropy"].updates = steps_per_eval["clean"]
  /\ metrics["test/nll_ood"].updates = steps_per_eval["ood"]

\* C8: for more than one member the ensemble negative log-likelihood is at most
\* the Gibbs cross-entropy.
C8_Jensen ==
  ("ens" \in fn /\ "gibbs" \in fn /\ Len(logits_in) > 1) =>
    NllLeq(ens_out, gibbs_out)

C8_Witness ==
  /\ fn = {"ens", "gibbs"}
  /\ Len(logits_in) > 1
  /\ logits_in[1] # logits_in[2]
  /\ NllLeq(ens_out, gibbs_out)
  /\ RLess(gibbs_out.expNegSum, RPow(ens_out, gibbs_out.count))

\* C9: the slice the aggregation pairs with the labels of the s-th batch holds,
\* for every member, the rows that member produced on that batch; the slices are
\* in bounds and cover the steps_per_eval * batch_size cached rows.
C9_Aligned ==
  pc \in {"eval", "evallog"} =>
    LET d == Name(n)
        s == step - 1 IN
    /\ Len(logits_dataset) = ensemble_size
    /\ \A i \in 1..Len(logits_dataset) :
         Len(logits_dataset[i]) = steps_per_eval[d] * batch_size
    /\ step > 0 =>
         /\ paired.labels = [j \in 1..batch_size |-> s * batch_size + (j - 1)]
         /\ Len(paired.logits) = ensemble_size
         /\ \A i \in 1..Len(paired.logits) :
              /\ Len(paired.logits[i]) = batch_size
              /\ \A j \in 1..batch_size :
                   /\ paired.logits[i][j] = <<i - 1, d, paired.labels[j]>>
                   /\ paired.logits[i][j] = logits_dataset[i][s * batch_size + j]

C9_Witness ==
  /\ pc = "evallog"
  /\ runs >= 2
  /\ hist.forwards = 0
  /\ ensemble_size >= 2
  /\ batch_size >= 2
  /\ step >= 2
  /\ paired.logits[2][1] = <<1, Name(n), batch_size>>

\* C10 as stated: the logged percent is (m * num_datasets + n) over
\* (ensemble_size * num_datasets) for the loop indices m, n of the pair just
\* processed (right after the log, n has already advanced by one).
C10_PercentZeroBased ==
  (pc = "exists" /\ n >= 1) =>
    percent[1] * (ensemble_size * num_datasets) =
      (m * num_datasets + (n - 1)) * percent[2]

\* C10 amended: the logged percent is (m * num_datasets + (n + 1)) over
\* (ensemble_size * num_datasets), so the last pair logs 100%.
C10_PercentOneBased ==
  /\ (pc = "exists" /\ n >= 1) =>
       /\ percent[2] > 0
       /\ percent[1] * (ensemble_size * num_datasets) =
            (m * num_datasets + ((n - 1) + 1)) * percent[2]
  /\ (pc = "metrics" /\ ensemble_size >= 1) => percent[1] = percent[2]

C10_Witness ==
  /\ pc = "exists"
  /\ m = 1
  /\ n = 2
  /\ ensemble_size = 2
  /\ percent = <<4, 4>>
====
